---- MODULE Spec2Model ----
(***************************************************************************)
(* Model of gasim (src/main.c): a grid world of Cells driven by a finite   *)
(* state machine chromosome, Food that is relocated when eaten, and the    *)
(* row-major tick scan of update_world.                                    *)
(*                                                                         *)
(* Spec      the program: world_new (cells and clumps drawn in Init, food  *)
(*           seeded by find_nearby_empty), then the main loop's ticks.     *)
(* SpecTick  update_world applied to a bounded family of worlds at a tick  *)
(*           boundary (scores near death and near mitosis, crowded grids). *)
(* SpecAll   both of the above.                                            *)
(* SpecWalk  find_nearby_empty alone, on nearly full grids.                *)
(* SpecAgain the program, world_new being the first or a later call of the *)
(*           process.                                                      *)
(* SpecGrow  one long run of the program under a chosen random stream.     *)
(* FairSpecTick, FairSpecWalk add the fairness of the random walk.         *)
(***************************************************************************)
EXTENDS Integers, Sequences, FiniteSets, TLC

(***************************************************************************)
(* Bounds of the model.                                                    *)
(***************************************************************************)
W == 4
H == 3
CLUMP_COUNT == 2
MaxTicks == 2
WalkEmpties == 2
GrowTicks == 45

(***************************************************************************)
(* Program constants (main.c:8-15) and enumerations (main.c:18-57).        *)
(***************************************************************************)
GENE_COUNT == 16
CELL_SCARCITY == 48
FOOD_SCARCITY == 11
CELL_START_SCORE == 250
FOOD_SCORE == 250
CELL_MITOSIS_THRESHOLD == 1000

ACTION_MOVE_FORWARD == 0
ACTION_TURN_LEFT == 1
ACTION_TURN_RIGHT == 2
ACTION_MOVE_BACKWARD == 3
ACTION_MAX == 4

action_costs == <<8, 3, 3, 5>>

SITUATION_EMPTY == 0
SITUATION_FOOD == 1
SITUATION_LIFE == 2
SITUATION_WALL == 3
SITUATION_MAX == 4

FACING_NORTH == 0
FACING_EAST == 1
FACING_SOUTH == 2
FACING_WEST == 3
FACING_MAX == 4

food_spawn == "FOOD_SPAWN_CLUMP"
food_rebirth == "FOOD_REBIRTH_SOMEWHERE"

N == W * H
Slots == 0 .. (N - 1)
States == 0 .. (GENE_COUNT - 1)
Situations == 0 .. (SITUATION_MAX - 1)
Actions == 0 .. (ACTION_MAX - 1)

(***************************************************************************)
(* Coordinates and the grid.                                               *)
(***************************************************************************)
Coord(x, y) == [x |-> x, y |-> y]

CoordOf(i) == Coord(i % W, i \div W)

(* y * width + x, the index expression of main.c:124, 421, 473 *)
IndexOf(coord) == coord.y * W + coord.x

coord_in_bounds(coord) ==
    /\ coord.x >= 0 /\ coord.x < W
    /\ coord.y >= 0 /\ coord.y < H

(* NULL slot *)
NoEntity == [type |-> "ENTITY_TYPE_NONE"]

IsCell(e) == e.type = "ENTITY_TYPE_CELL"
IsFood(e) == e.type = "ENTITY_TYPE_FOOD"

(***************************************************************************)
(* Facing.                                                                 *)
(***************************************************************************)
(* facing_turn with turn *= -1 at line 154: a left turn turns right *)
facing_turn_abs(facing, turn) ==
    LET t == IF turn < 0 THEN turn * (-1) ELSE turn
    IN (facing + t) % FACING_MAX

facing_turn(facing, turn) ==
    LET t == IF turn < 0 THEN turn * (-3) ELSE turn
    IN (facing + t) % FACING_MAX

facing_step(facing, coord, steps) ==
    CASE facing = FACING_NORTH -> Coord(coord.x, coord.y - steps)
      [] facing = FACING_SOUTH -> Coord(coord.x, coord.y + steps)
      [] facing = FACING_WEST -> Coord(coord.x - steps, coord.y)
      [] facing = FACING_EAST -> Coord(coord.x + steps, coord.y)

(***************************************************************************)
(* Genetic model.                                                          *)
(***************************************************************************)
Response(action, next_state) == [action |-> action, next_state |-> next_state]

chromosome_big_square ==
    [gene \in States |->
        IF gene < 15
        THEN [s \in Situations |->
                IF s \in SITUATION_EMPTY .. SITUATION_FOOD
                THEN Response(ACTION_MOVE_FORWARD, gene + 1)
                ELSE Response(ACTION_TURN_LEFT, 0)]
        ELSE [s \in Situations |->
                (* designated first element, the rest zero-initialised,    *)
                (* then responses[SITUATION_FOOD] assigned (main.c:199-200) *)
                CASE s = SITUATION_FOOD -> Response(ACTION_MOVE_FORWARD, 15)
                  [] s = 0 -> Response(ACTION_TURN_LEFT, 0)
                  [] OTHER -> Response(0, 0)]]

(* The outcome of the drand48/lrand48 draws of one chromosome_mutate call:  *)
(* act and nxt map the fields <<state, situation>> whose Bernoulli draw hit *)
(* to the freshly drawn value.                                              *)
NoDraws == [act |-> <<>>, nxt |-> <<>>]

(* The draws explored: at most one field is hit per call, in the response   *)
(* of state 0 to SITUATION_EMPTY; a hit action takes any value, a hit       *)
(* next_state the value 0.                                                  *)
MutFields == {<<0, SITUATION_EMPTY>>}

MutationDraws ==
    {NoDraws}
    \cup {[act |-> (f :> a), nxt |-> <<>>] : f \in MutFields, a \in Actions}
    \cup {[act |-> <<>>, nxt |-> (f :> 0)] : f \in MutFields}

(* chromosome_mutate without the % GENE_COUNT of line 166: a hit           *)
(* next_state may be GENE_COUNT                                             *)
chromosome_mutate_unbounded(c, draws) ==
    [state \in States |-> [situation \in Situations |->
        Response(
            IF <<state, situation>> \in DOMAIN draws.act
            THEN draws.act[<<state, situation>>]
            ELSE c[state][situation].action,
            IF <<state, situation>> \in DOMAIN draws.nxt
            THEN GENE_COUNT
            ELSE c[state][situation].next_state)]]

chromosome_mutate(c, draws) ==
    [state \in States |-> [situation \in Situations |->
        Response(
            IF <<state, situation>> \in DOMAIN draws.act
            THEN draws.act[<<state, situation>>]
            ELSE c[state][situation].action,
            IF <<state, situation>> \in DOMAIN draws.nxt
            THEN draws.nxt[<<state, situation>>]
            ELSE c[state][situation].next_state)]]

(* bitwise operations on naturals, for cell_get_color *)
RECURSIVE BitOr(_, _)
BitOr(a, b) ==
    IF a = 0 THEN b
    ELSE IF b = 0 THEN a
    ELSE (IF a % 2 = 1 \/ b % 2 = 1 THEN 1 ELSE 0) + 2 * BitOr(a \div 2, b \div 2)

RECURSIVE BitXor(_, _)
BitXor(a, b) ==
    IF a = 0 THEN b
    ELSE IF b = 0 THEN a
    ELSE ((a + b) % 2) + 2 * BitXor(a \div 2, b \div 2)

(* lines 176-181: four 6-bit shifts stay below 2^24, far from the 32-bit     *)
(* width of series                                                          *)
RECURSIVE Series(_, _, _)
Series(chromosome, gene, situation) ==
    IF situation < 0 THEN 0
    ELSE LET r == chromosome[gene][situation]
         IN BitOr(Series(chromosome, gene, situation - 1) * 64,
                  (r.action * 16) + (r.next_state % 16))

RECURSIVE ColorUpTo(_, _)
ColorUpTo(chromosome, gene) ==
    IF gene < 0 THEN 0
    ELSE BitXor(ColorUpTo(chromosome, gene - 1),
                Series(chromosome, gene, SITUATION_MAX - 1))

cell_get_color(chromosome) == ColorUpTo(chromosome, GENE_COUNT - 1)

(***************************************************************************)
(* Entities.  id is the identity of the allocation (the pointer value).    *)
(***************************************************************************)
(* cell_new: parent is NoEntity for NULL; draws are the mutation draws and  *)
(* fr the value facing_random returns.                                      *)
cell_new(parent, draws, fr, id) ==
    LET chromosome == IF parent = NoEntity
                      THEN chromosome_mutate(chromosome_big_square, draws)
                      ELSE chromosome_mutate(parent.chromosome, draws)
    IN [type |-> "ENTITY_TYPE_CELL",
        id |-> id,
        last_update_color |-> IF parent = NoEntity THEN -1
                              ELSE parent.last_update_color,
        state |-> 0,
        score |-> CELL_START_SCORE,
        chromosome |-> chromosome,
        facing |-> IF parent = NoEntity THEN fr ELSE facing_turn(parent.facing, 2),
        color |-> cell_get_color(chromosome)]

food_new(id) ==
    [type |-> "ENTITY_TYPE_FOOD", id |-> id, last_update_color |-> 0, clump |-> -1]

(* the values random_int(min, max) can return *)
random_int(min, max) == min .. (max - 1)

perturb_coord(coord) ==
    {Coord(coord.x + dx, coord.y + dy) : dx \in random_int(-1, 2), dy \in random_int(-1, 2)}

(* the clump coordinates drawn (main.c:291, 387-388), explored at the       *)
(* corners of the grid                                                      *)
ClumpDraws ==
    {Coord(x, y) : x \in random_int(0, W) \cap {0, W - 1},
                   y \in random_int(0, H) \cap {0, H - 1}}

VARIABLES
    entities,       \* world->entities: slot index -> entity or NoEntity
    clumps,         \* world->clumps: clump index -> coordinate
    facing_static,  \* the static counter of facing_random
    turn_color,     \* main's turn_color
    pc,             \* position of the program
    food_i,         \* world_new's food loop counter
    scan,           \* update_world's loop position, y * width + x
    coord,          \* find_nearby_empty's coord
    ret,            \* where find_nearby_empty returns to
    food_ref,       \* relocate_food's food_ref, as the slot's coordinate
    response,       \* entity_update's response while relocate_food runs
    next_id,        \* number of allocations so far
    ticks,          \* ticks started
    live,           \* ids allocated and not freed
    acts,           \* per tick: entity id -> number of actions performed
    at_start,       \* ids of the Cells on the grid when the tick started
    relocated,      \* per tick: ids of the Food relocated
    upd             \* what the latest entity_update call did

vars == <<entities, clumps, facing_static, turn_color, pc, food_i, scan, coord,
          ret, food_ref, response, next_id, ticks, live, acts, at_start,
          relocated, upd>>

NoCoord == Coord(-1, -1)
NoResponse == Response(-1, -1)

(* upd when the latest entity_update call looked up no Response *)
NoUpd ==
    [done |-> TRUE, id |-> -1, start |-> -1, at |-> -1, situation |-> -1,
     response |-> NoResponse, faced |-> -1, facing0 |-> -1, score0 |-> 0,
     final |-> 0,
     relocs |-> 0, eaten |-> -1, child |-> -1, draws |-> NoDraws]

CellIds(world) == {world[i].id : i \in {j \in Slots : IsCell(world[j])}}
FoodIds(world) == {world[i].id : i \in {j \in Slots : IsFood(world[j])}}
EntityId(e) == IF e = NoEntity THEN -1 ELSE e.id

(***************************************************************************)
(* world_new, lines 271-292: the cells, the ancestor and the clumps.       *)
(***************************************************************************)
CellSlots == {i \in Slots : i % CELL_SCARCITY = 0}
ai_index == (H \div 2) * W + (W \div 2)
FoodCount == (W * H) \div FOOD_SCARCITY

world_new_cells(draws, ai_draws, facing0) ==
    LET ai_cell == [cell_new(NoEntity, ai_draws,
                             (facing0 + Cardinality(CellSlots) + 1) % FACING_MAX,
                             Cardinality(CellSlots))
                       EXCEPT !.chromosome = chromosome_big_square,
                              !.facing = FACING_NORTH]
    IN [i \in Slots |->
          IF i = ai_index THEN ai_cell
          ELSE IF i \in CellSlots
          THEN cell_new(NoEntity, draws[i],
                        (facing0 + (i \div CELL_SCARCITY) + 1) % FACING_MAX,
                        i \div CELL_SCARCITY)
          ELSE NoEntity]

(* the state when world_new reaches line 293: earlier are the values the    *)
(* static counter of facing_random may have when world_new is called, the   *)
(* mutation draws are taken from cell_draws and the clump coordinates from  *)
(* clump_draws                                                              *)
WorldNewInit(earlier, cell_draws, clump_draws) ==
    /\ \E facing0 \in earlier :
          /\ \E draws \in [CellSlots -> cell_draws], ai_draws \in cell_draws :
                entities = world_new_cells(draws, ai_draws, facing0)
          /\ facing_static = facing0 + Cardinality(CellSlots) + 1
    /\ clumps \in [0 .. (CLUMP_COUNT - 1) -> clump_draws]
    /\ turn_color = 0
    /\ pc = "world_new"
    /\ food_i = 0
    /\ scan = 0
    /\ coord = NoCoord
    /\ ret = "none"
    /\ food_ref = NoCoord
    /\ response = NoResponse
    /\ next_id = Cardinality(CellSlots) + 1
    /\ ticks = 0
    /\ live = CellIds(entities)
    /\ acts = <<>>
    /\ at_start = {}
    /\ relocated = {}
    /\ upd = NoUpd

Init == WorldNewInit({0}, MutationDraws, ClumpDraws)

(***************************************************************************)
(* find_nearby_empty, one iteration of its loop per step.                  *)
(***************************************************************************)
(* world_get_entity_ref: the slot's index, or -1 for NULL *)
world_get_entity_ref(c) == IF coord_in_bounds(c) THEN IndexOf(c) ELSE -1

(* line 264 without the test of *ent_ref *)
find_nearby_empty_found_any(world, ent_ref) == TRUE

(* line 264: the loop returns when the accepted slot is empty *)
find_nearby_empty_found(world, ent_ref) == world[ent_ref] = NoEntity

(* lines 260-265 with the offset drawn by perturb_coord *)
FindNearbyEmptyStep(new_coord) ==
    /\ pc = "find_nearby_empty"
    /\ LET ent_ref == world_get_entity_ref(new_coord)
       IN IF ent_ref # -1
          THEN /\ coord' = new_coord
               /\ pc' = IF find_nearby_empty_found(entities, ent_ref)
                        THEN ret ELSE pc
          ELSE UNCHANGED <<coord, pc>>
    /\ UNCHANGED <<entities, clumps, facing_static, turn_color, food_i, scan, ret,
                   food_ref, response, next_id, ticks, live, acts, at_start,
                   relocated, upd>>

FindNearbyEmpty ==
    \E new_coord \in perturb_coord(coord) : FindNearbyEmptyStep(new_coord)

(***************************************************************************)
(* world_new, lines 293-302: seeding the food.                             *)
(***************************************************************************)
WorldNewFood ==
    /\ pc = "world_new"
    /\ IF food_i < FoodCount
       THEN /\ coord' = clumps[food_i % CLUMP_COUNT]
            /\ pc' = IF coord_in_bounds(coord') THEN "find_nearby_empty" ELSE "abort"
            /\ ret' = "world_new_place"
            /\ next_id' = next_id + 1
            /\ live' = live \cup {next_id}
       ELSE /\ pc' = "main"
            /\ UNCHANGED <<coord, ret, next_id, live>>
    /\ UNCHANGED <<entities, clumps, facing_static, turn_color, food_i, scan,
                   food_ref, response, ticks, acts, at_start, relocated, upd>>

world_new_place(world, i, c, id) ==
    [world EXCEPT ![IndexOf(c)] = [food_new(id) EXCEPT !.clump = i % CLUMP_COUNT]]

WorldNewPlace ==
    /\ pc = "world_new_place"
    /\ entities' = world_new_place(entities, food_i, coord, next_id - 1)
    /\ food_i' = food_i + 1
    /\ pc' = "world_new"
    /\ coord' = NoCoord
    /\ ret' = "none"
    /\ UNCHANGED <<clumps, facing_static, turn_color, scan, food_ref, response,
                   next_id, ticks, live, acts, at_start, relocated, upd>>

(***************************************************************************)
(* entity_update.                                                          *)
(***************************************************************************)
(* entity_update_skips without the comparison of line 424 *)
entity_update_skips_untagged(e, update_color) == e = NoEntity

(* lines 422-425: nothing to do for an empty slot or an entity already      *)
(* tagged with this tick's colour                                           *)
entity_update_skips(e, update_color) ==
    e = NoEntity \/ e.last_update_color = update_color

(* set_tag that leaves Food untagged *)
set_tag_cells_only(world, i, update_color) ==
    IF IsCell(world[i])
    THEN [world EXCEPT ![i].last_update_color = update_color]
    ELSE world

(* lines 426-427 *)
set_tag(world, i, update_color) ==
    [world EXCEPT ![i].last_update_color = update_color]

(* line 432 *)
faced_coord_of(cell, start_pos) == facing_step(cell.facing, start_pos, 1)

(* situation_of looking at the slot of line 470, one step behind *)
situation_of_behind(world, cell, start_pos) ==
    LET faced_coord == facing_step(cell.facing, start_pos, -1)
    IN IF ~coord_in_bounds(faced_coord)
       THEN SITUATION_WALL
       ELSE LET faced_entity == world[world_get_entity_ref(faced_coord)]
            IN IF faced_entity # NoEntity
               THEN IF IsCell(faced_entity) THEN SITUATION_LIFE ELSE SITUATION_FOOD
               ELSE SITUATION_EMPTY

(* lines 431-453 *)
situation_of(world, cell, start_pos) ==
    LET faced_coord == faced_coord_of(cell, start_pos)
    IN IF \/ faced_coord.x < 0 \/ faced_coord.x >= W
          \/ faced_coord.y < 0 \/ faced_coord.y >= H
       THEN SITUATION_WALL
       ELSE LET faced_entity == world[world_get_entity_ref(faced_coord)]
            IN IF faced_entity # NoEntity
               THEN IF IsCell(faced_entity) THEN SITUATION_LIFE ELSE SITUATION_FOOD
               ELSE SITUATION_EMPTY

(* line 456 *)
response_of(world, cell, start_pos) ==
    cell.chromosome[cell.state][situation_of(world, cell, start_pos)]

(* line 470: (ACTION_MOVE_FORWARD ? 1 : -1) *)
move_steps == IF ACTION_MOVE_FORWARD # 0 THEN 1 ELSE -1

(* lines 467-470 *)
dest_coord_of(cell, start_pos) == facing_step(cell.facing, start_pos, move_steps)

IsMove(action) == action \in {ACTION_MOVE_FORWARD, ACTION_MOVE_BACKWARD}
IsTurn(action) == action \in {ACTION_TURN_LEFT, ACTION_TURN_RIGHT}

(* lines 457-463 *)
turn_cell(cell, action) ==
    [cell EXCEPT !.facing = facing_turn(cell.facing,
                               IF action = ACTION_TURN_LEFT THEN -1 ELSE 1)]

(* line 485 with > for >= *)
mitosis_due_strict(cell) == cell.score > CELL_MITOSIS_THRESHOLD

(* line 485 *)
mitosis_due(cell) == cell.score >= CELL_MITOSIS_THRESHOLD

(* move_cell that forgets line 484, *entity = NULL *)
move_cell_keeps_source(world, src, dst, draws, id) ==
    LET cell == world[src]
    IN IF cell.score >= CELL_MITOSIS_THRESHOLD
       THEN [world EXCEPT ![dst] = [cell EXCEPT !.score = CELL_START_SCORE],
                          ![src] = cell_new(cell, draws, 0, id)]
       ELSE [world EXCEPT ![dst] = cell]

(* lines 483-489: ownership moves to dst; a child may fill src *)
move_cell(world, src, dst, draws, id) ==
    LET cell == world[src]
    IN IF mitosis_due(cell)
       THEN [world EXCEPT ![dst] = [cell EXCEPT !.score = CELL_START_SCORE],
                          ![src] = cell_new(cell, draws, 0, id)]
       ELSE [world EXCEPT ![dst] = cell, ![src] = NoEntity]

(* lines 495-496 *)
paid_cell(cell, resp) ==
    [cell EXCEPT !.score = cell.score - action_costs[resp.action + 1],
                 !.state = resp.next_state]

(* entity_update without the test of line 498 *)
cell_dies_never(cell) == FALSE

(* line 498 with < for <= *)
cell_dies_strict(cell) == cell.score < 0

(* line 498 *)
cell_dies(cell) == cell.score <= 0

(* lines 495-501: at is the slot entity points to after the action *)
pay_cost(world, at, resp) ==
    IF cell_dies(paid_cell(world[at], resp))
    THEN [world EXCEPT ![at] = NoEntity]
    ELSE [world EXCEPT ![at] = paid_cell(world[at], resp)]

Count(f, id) == IF id \in DOMAIN f THEN f[id] ELSE 0
Bump(f, id) == [i \in DOMAIN f \cup {id} |-> Count(f, i) + IF i = id THEN 1 ELSE 0]

(* update_world's loop: next slot, or back to main after the last one *)
ScanNext ==
    /\ scan' = scan + 1
    /\ pc' = IF scan + 1 = N THEN "main" ELSE "update_world"

(* the destination slot of the cell at slot i, or -1 when it makes no move  *)
(* into the grid (lines 464-472)                                            *)
DestOf(world, i) ==
    LET cell == world[i]
        resp == response_of(world, cell, CoordOf(i))
        dest == dest_coord_of(cell, CoordOf(i))
    IN IF IsMove(resp.action) /\ coord_in_bounds(dest) THEN IndexOf(dest) ELSE -1

(* whether entity_update of slot i gets as far as looking up a Response *)
Acts(world, i, update_color) ==
    /\ ~entity_update_skips(world[i], update_color)
    /\ IsCell(world[i])

(* whether entity_update of slot i eats: it reaches line 475 with Food at    *)
(* the destination                                                          *)
Eats(world, i, update_color) ==
    /\ Acts(world, i, update_color)
    /\ world[i].state \in States
    /\ DestOf(world, i) # -1
    /\ IsFood(world[DestOf(world, i)])

(* what upd records when the cell at slot i begins to act *)
UpdOf(world, i) ==
    LET cell == world[i]
        faced == faced_coord_of(cell, CoordOf(i))
    IN [NoUpd EXCEPT !.done = FALSE, !.id = cell.id, !.start = i, !.at = i,
                     !.situation = situation_of(world, cell, CoordOf(i)),
                     !.response = response_of(world, cell, CoordOf(i)),
                     !.faced = IF coord_in_bounds(faced)
                               THEN EntityId(world[IndexOf(faced)]) ELSE -1,
                     !.facing0 = cell.facing,
                     !.score0 = cell.score]

(* the step that ends an entity_update call in which a cell acted: world is  *)
(* the grid after the action, at the slot entity points to (lines 495-501)   *)
EndUpdate(u, world, at) ==
    LET paid == paid_cell(world[at], u.response)
    IN /\ entities' = pay_cost(world, at, u.response)
       /\ upd' = [u EXCEPT !.done = TRUE, !.at = at, !.final = paid.score]
       /\ live' = (IF cell_dies(paid) THEN live \ {u.id} ELSE live)
                  \cup (IF u.child # -1 THEN {u.child} ELSE {})
       /\ next_id' = IF u.child # -1 THEN next_id + 1 ELSE next_id
       /\ ScanNext

(* lines 482-490 and 495-501: the move itself, with the mitosis draws *)
MoveAndEnd(u, world, src, dst) ==
    \E draws \in IF mitosis_due(world[src]) THEN MutationDraws ELSE {NoDraws} :
        EndUpdate([u EXCEPT !.child = IF mitosis_due(world[src]) THEN next_id ELSE -1,
                            !.draws = draws],
                  move_cell(world, src, dst, draws, next_id), dst)

(* entity_update on the current slot, every path but the one through         *)
(* relocate_food                                                            *)
EntityUpdate ==
    /\ pc = "update_world"
    /\ ~Eats(entities, scan, turn_color)
    /\ LET e == entities[scan]
           world == set_tag(entities, scan, turn_color)
       IN IF entity_update_skips(e, turn_color)
          THEN /\ ScanNext
               /\ upd' = NoUpd
               /\ UNCHANGED <<entities, next_id, acts, live>>
          ELSE IF ~IsCell(e)
          THEN /\ entities' = world
               /\ ScanNext
               /\ upd' = NoUpd
               /\ UNCHANGED <<next_id, acts, live>>
          ELSE IF e.state \notin States
          THEN /\ entities' = world
               /\ pc' = "abort"
               /\ upd' = NoUpd
               /\ UNCHANGED <<scan, next_id, acts, live>>
          ELSE LET u == UpdOf(world, scan)
                   dest == DestOf(world, scan)
               IN /\ acts' = Bump(acts, e.id)
                  /\ IF IsTurn(u.response.action)
                     THEN EndUpdate(u, [world EXCEPT ![scan] =
                                           turn_cell(world[scan], u.response.action)],
                                    scan)
                     ELSE IF ~IsMove(u.response.action)
                     THEN /\ entities' = world
                          /\ pc' = "abort"
                          /\ upd' = u
                          /\ UNCHANGED <<scan, next_id, live>>
                     ELSE IF dest = -1 \/ world[dest] # NoEntity
                     THEN EndUpdate(u, world, scan)
                     ELSE MoveAndEnd(u, world, scan, dest)
    /\ UNCHANGED <<clumps, facing_static, turn_color, food_i, coord, ret, food_ref,
                   response, ticks, at_start, relocated>>

(***************************************************************************)
(* relocate_food.                                                          *)
(***************************************************************************)
(* lines 385-389: the eaten food's clump drifts when the draw says so *)
relocate_clumps(cl, clump, rerandom, new_coord) ==
    IF food_spawn = "FOOD_SPAWN_CLUMP" /\ rerandom
    THEN [cl EXCEPT ![clump] = new_coord]
    ELSE cl

(* lines 369-401: the anchor handed to find_nearby_empty; cl are the clumps  *)
(* after relocate_clumps, r_index and r_coord the values drawn               *)
relocate_anchor(cl, old_coord, clump, r_index, r_coord) ==
    IF food_spawn = "FOOD_SPAWN_RANDOM"
    THEN IF food_rebirth = "FOOD_REBIRTH_NEARBY" THEN old_coord ELSE r_coord
    ELSE IF food_rebirth = "FOOD_REBIRTH_NEARBY" THEN cl[clump] ELSE cl[r_index]

(* relocate_food taking the fallback of lines 412-413: the food is destroyed *)
relocate_place_destroys(world, old, new) ==
    [world EXCEPT ![old] = NoEntity]

(* lines 404-407: ownership of the food moves from old to new *)
relocate_place(world, old, new) ==
    [world EXCEPT ![new] = world[old], ![old] = NoEntity]

(* entity_update up to the call of find_nearby_empty inside relocate_food:   *)
(* the cell is tagged, found to move onto Food, credited (line 476), and     *)
(* relocate_food picks its anchor (lines 367-401)                            *)
EntityUpdateEat ==
    /\ pc = "update_world"
    /\ Eats(entities, scan, turn_color)
    /\ LET world == set_tag(entities, scan, turn_color)
           cell == world[scan]
           dest == DestOf(world, scan)
           food == world[dest]
       IN /\ acts' = Bump(acts, cell.id)
          /\ entities' = [world EXCEPT ![scan].score = @ + FOOD_SCORE]
          /\ response' = response_of(world, cell, CoordOf(scan))
          /\ upd' = [UpdOf(world, scan) EXCEPT !.relocs = 1, !.eaten = food.id]
          /\ food_ref' = CoordOf(dest)
          /\ \E rerandom \in BOOLEAN :
             \E new_coord \in IF rerandom THEN ClumpDraws ELSE {NoCoord} :
             \E r_index \in random_int(0, CLUMP_COUNT) :
                /\ clumps' = relocate_clumps(clumps, food.clump, rerandom, new_coord)
                /\ coord' = relocate_anchor(clumps', CoordOf(dest), food.clump,
                                            r_index, NoCoord)
          /\ pc' = IF coord_in_bounds(coord') THEN "find_nearby_empty" ELSE "abort"
          /\ ret' = "relocate_food"
    /\ UNCHANGED <<facing_static, turn_color, food_i, scan, next_id, ticks, live,
                   at_start, relocated>>

(* find_nearby_empty has returned coord: relocate_food places the food       *)
(* (lines 404-408) and returns to entity_update                              *)
RelocateFood ==
    /\ pc = "relocate_food"
    /\ LET old == IndexOf(food_ref)
           new == IndexOf(coord)
       IN IF entities[new] # NoEntity
          THEN /\ pc' = "abort"
               /\ UNCHANGED <<entities, relocated>>
          ELSE /\ entities' = relocate_place(entities, old, new)
               /\ relocated' = relocated \cup {entities[old].id}
               /\ pc' = "entity_update"
    /\ coord' = NoCoord
    /\ ret' = "none"
    /\ UNCHANGED <<clumps, facing_static, turn_color, food_i, scan, food_ref,
                   response, next_id, ticks, live, acts, at_start, upd>>

(* entity_update from line 482 on, after relocate_food *)
EntityUpdateMove ==
    /\ pc = "entity_update"
    /\ IF entities[IndexOf(food_ref)] # NoEntity
       THEN /\ pc' = "abort"
            /\ UNCHANGED <<entities, scan, next_id, live, upd>>
       ELSE MoveAndEnd(upd, entities, scan, IndexOf(food_ref))
    /\ food_ref' = NoCoord
    /\ response' = NoResponse
    /\ UNCHANGED <<clumps, facing_static, turn_color, food_i, coord, ret, ticks,
                   acts, at_start, relocated>>

(***************************************************************************)
(* main, lines 522-532: toggle the colour and run update_world.            *)
(***************************************************************************)
(* main without line 523 *)
toggle_forgotten(color) == color

(* line 523: turn_color = !turn_color *)
toggle(color) == IF color = 0 THEN 1 ELSE 0

MainUpTo(limit) ==
    /\ pc = "main"
    /\ ticks < limit
    /\ turn_color' = toggle(turn_color)
    /\ ticks' = ticks + 1
    /\ scan' = 0
    /\ pc' = "update_world"
    /\ acts' = <<>>
    /\ at_start' = CellIds(entities)
    /\ relocated' = {}
    /\ upd' = NoUpd
    /\ UNCHANGED <<entities, clumps, facing_static, food_i, coord, ret, food_ref,
                   response, next_id, live>>

Main == MainUpTo(MaxTicks)

TickNext ==
    \/ Main
    \/ EntityUpdate
    \/ EntityUpdateEat
    \/ FindNearbyEmpty
    \/ RelocateFood
    \/ EntityUpdateMove

Next == WorldNewFood \/ WorldNewPlace \/ TickNext

Spec == Init /\ [][Next]_vars

(***************************************************************************)
(* SpecTick: update_world applied to worlds at a tick boundary.  A world   *)
(* of the family holds one subject Cell (any slot, any facing, a score at  *)
(* the edge of death, the starting score or a score one meal from mitosis, *)
(* and a chromosome and state reachable by the draws above), the Food of   *)
(* the grid, and either no other Cell or a Cell in every other slot.       *)
(***************************************************************************)
TickScores == {3, CELL_START_SCORE, CELL_MITOSIS_THRESHOLD - FOOD_SCORE}

TickChromosomes ==
    {chromosome_big_square,
     chromosome_mutate(chromosome_big_square,
         [act |-> (<<0, SITUATION_EMPTY>> :> ACTION_TURN_RIGHT), nxt |-> <<>>]),
     chromosome_mutate(chromosome_big_square,
         [act |-> (<<0, SITUATION_EMPTY>> :> ACTION_MOVE_BACKWARD), nxt |-> <<>>])}

TickBrains ==
    {[state |-> s, chromosome |-> c, color |-> cell_get_color(c)] :
        s \in {0}, c \in TickChromosomes}
    \cup {[state |-> GENE_COUNT - 1, chromosome |-> chromosome_big_square,
           color |-> cell_get_color(chromosome_big_square)]}

TickSeedBrain ==
    [state |-> 0, chromosome |-> chromosome_big_square,
     color |-> cell_get_color(chromosome_big_square)]

TickCell(id, brain, facing, score, color) ==
    [type |-> "ENTITY_TYPE_CELL",
     id |-> id,
     last_update_color |-> color,
     state |-> brain.state,
     score |-> score,
     chromosome |-> brain.chromosome,
     facing |-> facing,
     color |-> brain.color]

(* the slots one step north, south, east or west of slot p *)
Beside(p) ==
    {IndexOf(c) : c \in {d \in {facing_step(f, CoordOf(p), 1) : f \in 0 .. (FACING_MAX - 1)} :
                            coord_in_bounds(d)}}

(* where the Food is: beside the subject, or in the first slot away from it *)
TickFoodSlots(p) ==
    Beside(p) \cup {CHOOSE q \in Slots : q # p /\ q \notin Beside(p)}

TickWorld(p, q, brain, facing, score, crowded, color) ==
    [i \in Slots |->
        IF i = p THEN TickCell(0, brain, facing, score, color)
        ELSE IF i = q
        THEN [food_new(1) EXCEPT !.last_update_color = color, !.clump = 0]
        ELSE IF crowded
        THEN TickCell(2 + i, TickSeedBrain, FACING_NORTH, CELL_START_SCORE, color)
        ELSE NoEntity]

TickInit ==
    /\ turn_color = 1
    /\ \E p \in Slots, brain \in TickBrains,
          facing \in 0 .. (FACING_MAX - 1), score \in TickScores,
          crowded \in BOOLEAN :
        \E q \in TickFoodSlots(p) :
          /\ entities = TickWorld(p, q, brain, facing, score, crowded, turn_color)
    /\ clumps = [i \in 0 .. (CLUMP_COUNT - 1) |->
                   IF i % 2 = 0 THEN Coord(0, 0) ELSE Coord(W - 1, H - 1)]
    /\ facing_static = 0
    /\ pc = "main"
    /\ food_i = FoodCount
    /\ scan = N
    /\ coord = NoCoord
    /\ ret = "none"
    /\ food_ref = NoCoord
    /\ response = NoResponse
    /\ next_id = N + 2
    /\ ticks = 0
    /\ live = CellIds(entities) \cup FoodIds(entities)
    /\ acts = <<>>
    /\ at_start = {}
    /\ relocated = {}
    /\ upd = NoUpd

SpecTick == TickInit /\ [][TickNext]_vars

(* Fairness of the random walk of find_nearby_empty.  perturb_coord draws    *)
(* each of the nine offsets with the same probability at every iteration    *)
(* (lines 251-252), so an outcome that is possible again and again occurs.  *)
(* The outcomes are grouped by how far the candidate is, in steps of the    *)
(* walk, from the nearest empty slot.                                       *)
Abs(n) == IF n < 0 THEN -n ELSE n
Steps(a, b) == IF Abs(a.x - b.x) > Abs(a.y - b.y) THEN Abs(a.x - b.x) ELSE Abs(a.y - b.y)
StepsToEmpty(world, c) ==
    LET ds == {Steps(c, CoordOf(i)) : i \in {j \in Slots : world[j] = NoEntity}}
    IN CHOOSE d \in ds : \A e \in ds : d <= e

FindNearbyEmptyWithin(d) ==
    /\ pc = "find_nearby_empty"
    /\ \E i \in Slots : entities[i] = NoEntity
    /\ \E new_coord \in perturb_coord(coord) :
          /\ coord_in_bounds(new_coord)
          /\ StepsToEmpty(entities, new_coord) = d
          /\ FindNearbyEmptyStep(new_coord)

RandomWalkFair ==
    \A d \in 0 .. ((IF W > H THEN W ELSE H) - 2) : SF_vars(FindNearbyEmptyWithin(d))

(* update_world with a search that keeps iterating and draws fairly *)
FairSpecTick == SpecTick /\ WF_vars(FindNearbyEmpty) /\ RandomWalkFair

(***************************************************************************)
(* find_nearby_empty on its own: called as at line 403 from any origin on  *)
(* a grid that is occupied but for one to WalkEmpties slots.               *)
(***************************************************************************)
WalkWorlds ==
    {[i \in Slots |->
        IF i \in empty THEN NoEntity
        ELSE TickCell(2 + i, TickSeedBrain, FACING_NORTH, CELL_START_SCORE, 1)] :
     empty \in {e \in SUBSET Slots : Cardinality(e) \in 1 .. WalkEmpties}}

WalkInit ==
    /\ entities \in WalkWorlds
    /\ coord \in {CoordOf(i) : i \in Slots}
    /\ clumps = [i \in 0 .. (CLUMP_COUNT - 1) |-> coord]
    /\ pc = "find_nearby_empty"
    /\ ret = "relocate_food"
    /\ turn_color = 1
    /\ facing_static = 0
    /\ food_i = FoodCount
    /\ scan = N
    /\ food_ref = NoCoord
    /\ response = NoResponse
    /\ next_id = N + 2
    /\ ticks = 1
    /\ live = CellIds(entities)
    /\ acts = <<>>
    /\ at_start = {}
    /\ relocated = {}
    /\ upd = NoUpd

SpecWalk == WalkInit /\ [][FindNearbyEmpty]_vars

FairSpecWalk == SpecWalk /\ WF_vars(FindNearbyEmpty) /\ RandomWalkFair

(***************************************************************************)
(* SpecGrow: one run of the program, GrowTicks ticks long, under a chosen  *)
(* random stream.  The draws of chromosome_mutate give the cell of slot 0  *)
(* a chromosome that moves in state 0 and turns left in state 1 whatever   *)
(* it faces, and hit nothing in any other call; the draws of relocate_food *)
(* and perturb_coord are those that end the search of find_nearby_empty in *)
(* the slot GrowLand gives for the tick and the slot being updated (tick 0 *)
(* is world_new).                                                          *)
(***************************************************************************)
GrowDraws ==
    [act |-> (<<0, SITUATION_LIFE>> :> ACTION_MOVE_FORWARD) @@
             (<<0, SITUATION_WALL>> :> ACTION_MOVE_FORWARD) @@
             (<<1, SITUATION_EMPTY>> :> ACTION_TURN_LEFT) @@
             (<<1, SITUATION_FOOD>> :> ACTION_TURN_LEFT),
     nxt |-> (<<0, SITUATION_LIFE>> :> 1) @@ (<<0, SITUATION_WALL>> :> 1) @@
             (<<1, SITUATION_EMPTY>> :> 0) @@ (<<1, SITUATION_FOOD>> :> 0)]

GrowLand ==
    <<0, 0>> :> 10 @@ <<1, 6>> :> 4 @@ <<3, 0>> :> 5 @@ <<5, 4>> :> 1 @@
    <<7, 5>> :> 0 @@ <<9, 1>> :> 2 @@ <<10, 1>> :> 4 @@ <<11, 0>> :> 5 @@
    <<13, 4>> :> 1 @@ <<14, 2>> :> 4 @@ <<17, 5>> :> 11 @@ <<17, 10>> :> 2 @@
    <<18, 1>> :> 8 @@ <<19, 4>> :> 0 @@ <<20, 4>> :> 9 @@ <<21, 8>> :> 1 @@
    <<22, 2>> :> 3 @@ <<23, 2>> :> 5 @@ <<23, 9>> :> 4 @@ <<24, 0>> :> 2 @@
    <<26, 1>> :> 9 @@ <<27, 5>> :> 0 @@ <<28, 4>> :> 7 @@ <<29, 3>> :> 10 @@
    <<29, 9>> :> 1 @@ <<30, 2>> :> 8 @@ <<30, 9>> :> 6 @@ <<31, 10>> :> 5 @@
    <<32, 1>> :> 3 @@ <<33, 7>> :> 9 @@ <<34, 8>> :> 2 @@ <<35, 3>> :> 10 @@
    <<35, 6>> :> 0 @@ <<36, 4>> :> 6 @@ <<37, 2>> :> 8 @@ <<37, 4>> :> 7 @@
    <<39, 6>> :> 9 @@ <<39, 8>> :> 6 @@ <<39, 10>> :> 5 @@ <<40, 1>> :> 2 @@
    <<40, 3>> :> 8 @@ <<40, 4>> :> 3 @@ <<41, 7>> :> 10 @@ <<43, 6>> :> 4 @@
    <<44, 8>> :> 7

GrowInit == WorldNewInit({0}, {GrowDraws}, {Coord(W - 1, 0)})

GrowStream ==
    /\ pc' \in {"world_new_place", "relocate_food"} =>
          /\ <<ticks, scan>> \in DOMAIN GrowLand
          /\ IndexOf(coord') = GrowLand[<<ticks, scan>>]
    /\ upd'.draws = NoDraws

GrowNext ==
    \/ WorldNewFood /\ GrowStream
    \/ WorldNewPlace /\ GrowStream
    \/ MainUpTo(GrowTicks) /\ GrowStream
    \/ EntityUpdate /\ GrowStream
    \/ EntityUpdateEat /\ GrowStream
    \/ FindNearbyEmpty /\ GrowStream
    \/ RelocateFood /\ GrowStream
    \/ EntityUpdateMove /\ GrowStream

SpecGrow == GrowInit /\ [][GrowNext]_vars

(***************************************************************************)
(* SpecAgain: the program, its world_new being the first of the process or *)
(* called after an earlier world_new of the same size, which left the      *)
(* static counter of facing_random (line 131) at the number of cells it    *)
(* created.                                                                *)
(***************************************************************************)
AgainInit ==
    WorldNewInit({0, Cardinality(CellSlots) + 1}, MutationDraws, ClumpDraws)

SpecAgain == AgainInit /\ [][Next]_vars

(* both: the program, and update_world on the worlds of TickInit *)
SpecAll == (Init \/ TickInit) /\ [][Next]_vars

(***************************************************************************)
(* Properties.                                                             *)
(***************************************************************************)
InTick == ticks > 0
TickDone == pc = "main" /\ ticks > 0
Constructed == pc = "main" \/ ticks > 0
SlotsOf(world, id) == {i \in Slots : EntityId(world[i]) = id}

(* C1: within one tick no entity performs more than one action: every entity *)
(* has acted at most once, and a Cell that was not on the grid when the tick *)
(* started (a child of this tick's mitosis) has not acted at all.            *)
C1_AtMostOneActionPerTick ==
    /\ \A id \in DOMAIN acts : acts[id] <= 1
    /\ InTick =>
         \A i \in Slots :
            IsCell(entities[i]) /\ entities[i].id \notin at_start
                => Count(acts, entities[i].id) = 0

(* the scan has reached a Cell that already acted this tick and moved here,  *)
(* while a child born this tick is on the grid                               *)
C1_Witness ==
    /\ pc = "update_world"
    /\ IsCell(entities[scan])
    /\ Count(acts, entities[scan].id) = 1
    /\ \E j \in Slots : IsCell(entities[j]) /\ entities[j].id \notin at_start

(* C2: when a tick is complete, every Cell that was on the grid when it      *)
(* started has been processed exactly once in it.                            *)
C2_NoCellSkipped ==
    TickDone => \A id \in at_start : Count(acts, id) = 1

(* the second tick is complete and a Cell born by mitosis in the first tick  *)
(* was processed in it                                                       *)
C2_Witness ==
    /\ TickDone
    /\ ticks = 2
    /\ \E i \in Slots :
          /\ IsCell(entities[i])
          /\ entities[i].id \in at_start
          /\ entities[i].id >= N + 2
          /\ Count(acts, entities[i].id) = 1

(* C3 as stated: after a completed tick every entity on the grid carries the *)
(* tick's tag.                                                               *)
C3_EveryEntityTagged ==
    TickDone =>
        \A i \in Slots :
            entities[i] # NoEntity => entities[i].last_update_color = turn_color

(* C3 amended: after a completed tick every Cell on the grid, and every Food *)
(* that was not relocated during the tick, carries the tick's tag.           *)
C3_CellsAndUnmovedFoodTagged ==
    TickDone =>
        \A i \in Slots :
            \/ entities[i] = NoEntity
            \/ IsFood(entities[i]) /\ entities[i].id \in relocated
            \/ entities[i].last_update_color = turn_color

(* a tick is complete, a Cell acted in it, and a Food relocated in it still  *)
(* carries another tag                                                       *)
C3_Witness ==
    /\ TickDone
    /\ \E i \in Slots : IsCell(entities[i]) /\ Count(acts, entities[i].id) = 1
    /\ \E i \in Slots :
          /\ IsFood(entities[i])
          /\ entities[i].id \in relocated
          /\ entities[i].last_update_color # turn_color

(* C4: once the world is constructed, every live entity is in exactly one    *)
(* slot, every slot holds a live entity or nothing, and no assertion fails;  *)
(* and a step that takes an entity to another slot finds that slot empty and *)
(* does not leave the entity in the slot it came from.                       *)
C4_Ownership ==
    /\ pc # "abort"
    /\ Constructed =>
         /\ \A id \in live : Cardinality(SlotsOf(entities, id)) = 1
         /\ \A i \in Slots : entities[i] # NoEntity => entities[i].id \in live

C4_Transfer ==
    \A i \in Slots, j \in Slots :
        (/\ i # j
         /\ entities[i] # NoEntity
         /\ EntityId(entities'[j]) = entities[i].id)
        => /\ entities[j] = NoEntity
           /\ EntityId(entities'[i]) # entities[i].id

C4_ExclusiveSlots == []C4_Ownership /\ [][C4_Transfer]_vars

(* a Cell has eaten, the Food was relocated, the Cell moved and left a child *)
C4_Witness ==
    /\ upd.done
    /\ upd.relocs = 1
    /\ upd.child # -1
    /\ upd.at # upd.start
    /\ EntityId(entities[upd.at]) = upd.id
    /\ EntityId(entities[upd.start]) = upd.child

(* C5 as stated: a Cell that faces Food and whose Response to Food is        *)
(* MoveForward ends its update in the slot one step ahead, where the Food    *)
(* was, with its score up by 250 - 8, in the Response's next_state, that     *)
(* Food having been relocated once.  (Scores that would reach the mitosis    *)
(* threshold are left out: the parent's score is reset there.)               *)
C5_MovesOntoFoodAhead ==
    (/\ upd.done
     /\ upd.id # -1
     /\ upd.situation = SITUATION_FOOD
     /\ upd.response.action = ACTION_MOVE_FORWARD
     /\ upd.score0 + FOOD_SCORE < CELL_MITOSIS_THRESHOLD)
    => LET ahead == IndexOf(facing_step(upd.facing0, CoordOf(upd.start), 1))
       IN /\ EntityId(entities[ahead]) = upd.id
          /\ entities[ahead].score =
                upd.score0 + FOOD_SCORE - action_costs[ACTION_MOVE_FORWARD + 1]
          /\ entities[ahead].state = upd.response.next_state
          /\ upd.relocs = 1
          /\ upd.eaten = upd.faced

(* the step that ends an entity_update call in which a Cell acted *)
Completes == upd'.done /\ upd'.id # -1 /\ pc \in {"update_world", "entity_update"}

(* C6: when an update ends, a Cell whose score after the deduction is <= 0   *)
(* is on the grid no more and the slot it occupied after its action is       *)
(* empty; a Cell whose score is > 0 is in that slot with that score; and no  *)
(* other entity has left the grid.                                           *)
C6_Step ==
    Completes =>
        /\ upd'.final <= 0 =>
              /\ entities'[upd'.at] = NoEntity
              /\ SlotsOf(entities', upd'.id) = {}
        /\ upd'.final > 0 =>
              /\ SlotsOf(entities', upd'.id) = {upd'.at}
              /\ entities'[upd'.at].score = upd'.final
        /\ \A j \in Slots :
              (entities[j] # NoEntity /\ entities[j].id # upd'.id)
                  => entities'[j] = entities[j]

C6_DeathEmptiesSlot == [][C6_Step]_vars

(* a Cell moved and died of the cost: both its old and its new slot are empty *)
C6_Witness ==
    /\ upd.done
    /\ upd.id # -1
    /\ upd.final <= 0
    /\ upd.at # upd.start
    /\ entities[upd.at] = NoEntity
    /\ entities[upd.start] = NoEntity

(* C7: a child appears exactly in the step that ends an update whose Cell    *)
(* moved with a score >= 1000 (food credit included); it is in the vacated   *)
(* slot with score 250, state 0, the parent's facing turned by 180 degrees   *)
(* and the parent's chromosome but for the fields the mutation draws hit;    *)
(* the parent ends with 250 less the action's cost.                          *)
NewCells == CellIds(entities') \ CellIds(entities)

C7_Step ==
    /\ NewCells # {} => Completes
    /\ Completes =>
         LET parent == entities[upd'.start]
             child == entities'[upd'.start]
         IN /\ NewCells # {} <=>
                  (upd'.at # upd'.start /\ parent.score >= CELL_MITOSIS_THRESHOLD)
            /\ NewCells # {} =>
                  /\ IsCell(child)
                  /\ NewCells = {child.id}
                  /\ child.score = CELL_START_SCORE
                  /\ child.state = 0
                  /\ child.facing = (parent.facing + 2) % FACING_MAX
                  /\ \A st \in States, si \in Situations :
                        /\ <<st, si>> \notin DOMAIN upd'.draws.act =>
                              child.chromosome[st][si].action
                                  = parent.chromosome[st][si].action
                        /\ <<st, si>> \notin DOMAIN upd'.draws.nxt =>
                              child.chromosome[st][si].next_state
                                  = parent.chromosome[st][si].next_state
                  /\ EntityId(entities'[upd'.at]) = upd'.id
                  /\ entities'[upd'.at].score =
                        CELL_START_SCORE - action_costs[upd'.response.action + 1]

C7_MitosisOnMove == [][C7_Step]_vars

(* a child with a mutated chromosome lies behind its parent *)
C7_Witness ==
    /\ upd.done
    /\ upd.child # -1
    /\ EntityId(entities[upd.start]) = upd.child
    /\ EntityId(entities[upd.at]) = upd.id
    /\ entities[upd.start].chromosome # entities[upd.at].chromosome

(* C8: the grid holds (W*H)/FOOD_SCARCITY Food after construction and after  *)
(* every tick; the step of relocate_food takes the eaten Food, its clump     *)
(* unchanged, to another slot that was empty, and no other step of a tick    *)
(* adds, removes or moves Food.                                              *)
FoodAt(world) ==
    {<<i, world[i].id, world[i].clump>> : i \in {j \in Slots : IsFood(world[j])}}

C8_Count ==
    pc = "main" => Cardinality(FoodAt(entities)) = FoodCount

C8_Step ==
    Constructed =>
        IF pc = "relocate_food"
        THEN \E old \in FoodAt(entities), new \in FoodAt(entities') :
                /\ old[2] = new[2] /\ old[3] = new[3]
                /\ old[1] # new[1]
                /\ entities[new[1]] = NoEntity
                /\ entities'[old[1]] = NoEntity
                /\ FoodAt(entities') \ {new} = FoodAt(entities) \ {old}
        ELSE FoodAt(entities') = FoodAt(entities)

C8_FoodConserved == []C8_Count /\ [][C8_Step]_vars

(* a tick in which Food was eaten is complete and the Food is on the grid *)
C8_Witness ==
    /\ TickDone
    /\ relocated # {}
    /\ relocated \subseteq FoodIds(entities)

GridFull == \A i \in Slots : entities[i] # NoEntity

(* C9 as stated: relocate_food entered with every slot occupied gives up     *)
(* the search, destroys the Food and lets the tick go on.                    *)
C9_FullGridFallback ==
    (pc = "find_nearby_empty" /\ ret = "relocate_food" /\ GridFull)
        ~> (pc = "entity_update" /\ ~GridFull)

(* C10: the candidate of find_nearby_empty is always on the grid; the        *)
(* coordinate it returns is on the grid and empty; and with an empty slot    *)
(* on the grid the search, drawing its offsets fairly, returns.              *)
C10_CandidateInBounds ==
    pc = "find_nearby_empty" => coord_in_bounds(coord)

C10_ReturnsEmpty ==
    pc \in {"world_new_place", "relocate_food"} =>
        /\ coord_in_bounds(coord)
        /\ entities[IndexOf(coord)] = NoEntity

C10_FindNearbyEmpty ==
    /\ []C10_CandidateInBounds
    /\ []C10_ReturnsEmpty
    /\ (pc = "find_nearby_empty" /\ ~GridFull) ~> (pc # "find_nearby_empty")

(* the search returned the only empty slot of the grid, two or more steps   *)
(* of the walk away from the origin it was started at                       *)
C10_Witness ==
    /\ pc = "relocate_food"
    /\ {i \in Slots : entities[i] = NoEntity} = {IndexOf(coord)}
    /\ Steps(clumps[0], coord) >= 2

(* C11 as stated: whenever relocate_food has called find_nearby_empty, in   *)
(* any run of the program from world_new on, the grid has an empty slot.    *)
C11_RelocateFindsRoom ==
    (pc = "find_nearby_empty" /\ ret = "relocate_food") => ~GridFull

(* C12 as stated: the world that world_new builds from given random draws   *)
(* is the same whatever number of cells was created earlier in the process. *)
C12_WorldFromStreamOnly ==
    (pc = "world_new" /\ food_i = 0) =>
        \A draws \in [CellSlots -> MutationDraws], ai_draws \in MutationDraws :
            entities = world_new_cells(draws, ai_draws,
                                       facing_static - (Cardinality(CellSlots) + 1))
                => entities = world_new_cells(draws, ai_draws, 0)

(* C13 as stated: a Cell that has moved is one step from where it was, in   *)
(* the direction of its facing if its Response was MoveForward, in the       *)
(* opposite direction if it was MoveBackward.                                *)
C13_StepByAction ==
    (upd.done /\ upd.id # -1 /\ upd.at # upd.start) =>
        CoordOf(upd.at) =
            facing_step(upd.facing0, CoordOf(upd.start),
                        IF upd.response.action = ACTION_MOVE_FORWARD THEN 1 ELSE -1)

(* C14 as stated: when a Cell eats, the anchor handed to find_nearby_empty   *)
(* is the coordinate of a clump other than the eaten Food's own.             *)
C14_Step ==
    (pc = "update_world" /\ pc' = "find_nearby_empty") =>
        \E i \in DOMAIN clumps' :
            /\ i # entities[IndexOf(food_ref')].clump
            /\ coord' = clumps'[i]

C14_AnchorAtOtherClump == [][C14_Step]_vars

(* C15 as stated: the chromosome of the ancestor that world_new builds is   *)
(* this table: states 0..14 answer Empty and Food with (MoveForward,         *)
(* state + 1), Life and Wall with (TurnLeft, 0); state 15 answers Food with  *)
(* (MoveForward, 15) and Empty, Life and Wall with (TurnLeft, 0).            *)
C15_SeedTable ==
    pc = "world_new" =>
        entities[ai_index].chromosome =
            [gene \in 0 .. 15 |-> [s \in Situations |->
                IF gene < 15
                THEN IF s \in {SITUATION_EMPTY, SITUATION_FOOD}
                     THEN Response(ACTION_MOVE_FORWARD, gene + 1)
                     ELSE Response(ACTION_TURN_LEFT, 0)
                ELSE IF s = SITUATION_FOOD
                     THEN Response(ACTION_MOVE_FORWARD, 15)
                     ELSE Response(ACTION_TURN_LEFT, 0)]]

(* the step in which entity_update looks up the Response of a Cell *)
Looks == pc = "update_world" /\ upd'.id # -1

(* C16: the Situation a Cell's Response is looked up with is decided by the  *)
(* slot one step ahead in its facing as the grid is before the action: Wall  *)
(* iff out of bounds, Life iff a Cell, Food iff a Food, Empty otherwise; the *)
(* Response is chromosome.genes[state][situation], and a Cell that survives  *)
(* its update is in that Response's next_state.                              *)
C16_Step ==
    /\ Looks =>
         LET cell == entities[scan]
             ahead == facing_step(cell.facing, CoordOf(scan), 1)
             inside == ahead.x \in 0 .. (W - 1) /\ ahead.y \in 0 .. (H - 1)
             slot == ahead.y * W + ahead.x
         IN /\ upd'.situation = SITUATION_WALL <=> ~inside
            /\ upd'.situation = SITUATION_LIFE <=> (inside /\ IsCell(entities[slot]))
            /\ upd'.situation = SITUATION_FOOD <=> (inside /\ IsFood(entities[slot]))
            /\ upd'.situation = SITUATION_EMPTY <=> (inside /\ entities[slot] = NoEntity)
            /\ upd'.response = cell.chromosome[cell.state][upd'.situation]
    /\ (Completes /\ upd'.final > 0) =>
         /\ upd'.response = (IF Looks THEN upd'.response ELSE upd.response)
         /\ entities'[upd'.at].state = upd'.response.next_state

C16_SituationAhead == [][C16_Step]_vars

(* a Cell with a Cell ahead and a Food behind has looked up its Response     *)
(* for Life                                                                  *)
C16_Witness ==
    /\ upd.id # -1
    /\ upd.situation = SITUATION_LIFE
    /\ upd.eaten # -1

(* C17: an update that leaves the Cell in its slot (a turn, a move out of    *)
(* bounds, a move onto another Cell) changes no other slot and no clump;     *)
(* the Cell pays the full cost of its action, takes the next_state, turns    *)
(* by -1 or +1 modulo 4 for TurnLeft or TurnRight and keeps its facing       *)
(* otherwise; it is removed if the cost brings its score to 0 or below.      *)
C17_Step ==
    (Completes /\ upd'.at = upd'.start) =>
        LET i == upd'.start
            cell == entities[i]
            a == upd'.response.action
            cost == CASE a = ACTION_MOVE_FORWARD -> 8 [] a = ACTION_TURN_LEFT -> 3
                      [] a = ACTION_TURN_RIGHT -> 3 [] a = ACTION_MOVE_BACKWARD -> 5
            facing == CASE a = ACTION_TURN_LEFT -> (cell.facing + FACING_MAX - 1) % FACING_MAX
                        [] a = ACTION_TURN_RIGHT -> (cell.facing + 1) % FACING_MAX
                        [] OTHER -> cell.facing
        IN /\ clumps' = clumps
           /\ \A j \in Slots \ {i} : entities'[j] = entities[j]
           /\ IF cell.score - cost > 0
              THEN entities'[i] = [cell EXCEPT !.score = cell.score - cost,
                                              !.state = upd'.response.next_state,
                                              !.facing = facing,
                                              !.last_update_color = turn_color]
              ELSE entities'[i] = NoEntity

C17_StayingCellFrame == [][C17_Step]_vars

(* a move was blocked by another Cell, and the Cell that tried paid for it *)
C17_Witness ==
    /\ upd.done
    /\ upd.id # -1
    /\ upd.at = upd.start
    /\ IsMove(upd.response.action)
    /\ IsCell(entities[upd.start])
    /\ coord_in_bounds(dest_coord_of(entities[upd.start], CoordOf(upd.start)))
    /\ IsCell(entities[IndexOf(dest_coord_of(entities[upd.start], CoordOf(upd.start)))])
    /\ entities[upd.start].score = upd.score0 - action_costs[upd.response.action + 1]

(* C18: every Cell's state is in 0..15, every Response of every Cell's       *)
(* chromosome has an action in 0..3 and a next_state in 0..15, and no        *)
(* assertion or abort is reached.                                            *)
C18_Ranges ==
    /\ pc # "abort"
    /\ \A i \in Slots :
          IsCell(entities[i]) =>
             /\ entities[i].state \in 0 .. 15
             /\ DOMAIN entities[i].chromosome = 0 .. 15
             /\ \A g \in 0 .. 15, si \in 0 .. 3 :
                   /\ entities[i].chromosome[g][si].action \in
                         {ACTION_MOVE_FORWARD, ACTION_TURN_LEFT,
                          ACTION_TURN_RIGHT, ACTION_MOVE_BACKWARD}
                   /\ entities[i].chromosome[g][si].next_state \in 0 .. 15

(* a child with a mutated chromosome is on the grid and its parent, past     *)
(* the state update, is in a state other than 0                              *)
C18_Witness ==
    /\ upd.done
    /\ upd.child # -1
    /\ upd.draws # NoDraws
    /\ IsCell(entities[upd.at])
    /\ entities[upd.at].state # 0

(* C19 as stated: the colour a Cell stores is cell_get_color of the          *)
(* chromosome it has, and is below 2^24.                                     *)
C19_ColorOfChromosome ==
    \A i \in Slots :
        IsCell(entities[i]) =>
            /\ entities[i].color = cell_get_color(entities[i].chromosome)
            /\ entities[i].color < 16777216

(* C20: between updates every Cell on the grid has a score above 0 and      *)
(* below 1000.                                                              *)
C20_ScoreInRange ==
    pc \in {"main", "update_world"} =>
        \A i \in Slots :
            IsCell(entities[i]) =>
                entities[i].score > 0 /\ entities[i].score < CELL_MITOSIS_THRESHOLD

(* a parent whose meal took it to the threshold has been reset and has paid *)
C20_Witness ==
    /\ upd.done
    /\ upd.child # -1
    /\ upd.score0 + FOOD_SCORE >= CELL_MITOSIS_THRESHOLD
    /\ IsCell(entities[upd.at])
    /\ entities[upd.at].score = CELL_START_SCORE - action_costs[upd.response.action + 1]

====
